---- MODULE Spec2Model ----
(***************************************************************************)
(* armavita-quo-mcp (server.mjs): the MCP tool server in front of the Quo  *)
(* REST API.  The model covers the secret redactor, the HTTP gateway       *)
(* (quoFetch) with its abort timer, the zod parameter schemas, the tool     *)
(* handlers and the dispatch boundary that turns a handler's outcome into  *)
(* a tool-call result.                                                     *)
(*                                                                         *)
(* Text (an error message, a response body, the text of a result) is a    *)
(* JavaScript string: the sequence of its UTF-16 code units, each a number *)
(* in 0..65535.  Chars("...") is the text of a literal.  The strings of a   *)
(* tool call's parameters, which the server passes on and never looks     *)
(* into, are kept whole.                                                   *)
(***************************************************************************)
EXTENDS Integers, Sequences, FiniteSets, TLC

VARIABLES
    pc,        \* per call: idle, validating, fetching, errbody, okbody, done
    req,       \* per call: the tool-call request [tool, args]
    out,       \* per call: the outbound HTTP requests it has issued, in order
    timer,     \* per call: the setTimeout handle: none, armed, fired, cleared
    aborted,   \* per call: controller.signal.aborted
    expired,   \* per call: HTTP_TIMEOUT_MS passed while the request was incomplete
    resp,      \* per call: the response the remote gave [status, statusText, body]
    result,    \* per call: the results returned to the caller, in order
    cause,     \* per call: why the call failed (none when it did not)
    raised,    \* per call: the message of the error as it was first raised
    served,    \* number of calls the server has finished
    hist,      \* what remains of the previous call: [isError, pageToken]
    zodDefaultInsideOptional, \* does the build's zod apply .default() under .optional()
    rin,       \* redactSecrets: the value given
    rout,      \* redactSecrets: the value returned
    qin,       \* the query loop of quoFetch: the params object given
    qout       \* the query loop of quoFetch: the search parameters built

callVars == <<pc, req, out, timer, aborted, expired, resp, result, cause, raised, served,
              hist, zodDefaultInsideOptional>>

pureVars == <<rin, rout, qin, qout>>

vars == <<callVars, pureVars>>

-----------------------------------------------------------------------------
(* Bounds *)

MaxTextLen == 4      \* most pieces of a text given to redactSecrets in SpecRedact
MaxCalls == 2        \* calls served one after the other in Spec
MaxParams == 3       \* most entries of a params object in SpecQuery

-----------------------------------------------------------------------------
(* Characters *)

\* the printable ASCII characters in the order of their codes: 32 to 95, and 97 to 126
\* (96, the grave accent, cannot stand in a string of this notation)
CodeOf ==
    LET low == " !\"#$%&'()*+,-./0123456789:;<=>?@ABCDEFGHIJKLMNOPQRSTUVWXYZ[\\]^_"
        high == "abcdefghijklmnopqrstuvwxyz{|}~"
    IN  [ch \in {SubSeq(low, i, i) : i \in 1..Len(low)}
                \cup {SubSeq(high, i, i) : i \in 1..Len(high)} |->
            IF \E i \in 1..Len(low) : SubSeq(low, i, i) = ch
            THEN 31 + (CHOOSE i \in 1..Len(low) : SubSeq(low, i, i) = ch)
            ELSE 96 + (CHOOSE i \in 1..Len(high) : SubSeq(high, i, i) = ch)]

\* the code units of a string of printable ASCII characters
Chars(str) == [i \in 1..Len(str) |-> CodeOf[SubSeq(str, i, i)]]

\* the decimal digits of a number, as String(n) writes them
Digits(n) == Chars(ToString(n))

-----------------------------------------------------------------------------
(* Configuration read at startup: server.mjs lines 8-21 *)

API_KEY == Chars("sk7f")

HTTP_TIMEOUT_MS == 30000

-----------------------------------------------------------------------------
(* JavaScript values *)

Undef == [t |-> "undef"]
Null == [t |-> "null"]
Str(s) == [t |-> "str", s |-> s, len |-> Len(s)]
LongStr(n) == [t |-> "str", s |-> "x..x", len |-> n]
Num(n) == [t |-> "num", n |-> n]
Bool(b) == [t |-> "bool", b |-> b]
Arr(a) == [t |-> "arr", a |-> a]
Obj(f) == [t |-> "obj", f |-> f]

\* o[k], undefined when the key is absent
Get(o, k) == IF k \in DOMAIN o THEN o[k] ELSE Undef

\* String(v) for the scalars that reach a query string
ToStr(v) ==
    CASE v.t = "str" -> v.s
      [] v.t = "num" -> ToString(v.n)
      [] v.t = "bool" -> (IF v.b THEN "true" ELSE "false")
      [] v.t = "null" -> "null"
      [] OTHER -> "undefined"

\* JavaScript truthiness of the values the handlers test
Truthy(v) ==
    CASE v.t = "undef" -> FALSE
      [] v.t = "null" -> FALSE
      [] v.t = "str" -> v.len > 0
      [] v.t = "num" -> v.n # 0
      [] v.t = "bool" -> v.b
      [] OTHER -> TRUE

-----------------------------------------------------------------------------
(* Text *)

Occurs(text, pat, i) ==
    /\ i >= 1
    /\ i + Len(pat) - 1 <= Len(text)
    /\ SubSeq(text, i, i + Len(pat) - 1) = pat

Contains(text, pat) == \E i \in 1..Len(text) : Occurs(text, pat, i)

\* String.prototype.replace with a string pattern: the first occurrence only
ReplaceFirst(text, pat, rep) ==
    LET i == IF Contains(text, pat)
             THEN CHOOSE k \in 1..Len(text) :
                    Occurs(text, pat, k) /\ \A j \in 1..(k - 1) : ~Occurs(text, pat, j)
             ELSE 0
    IN  IF i = 0 THEN text
        ELSE SubSeq(text, 1, i - 1) \o rep \o SubSeq(text, i + Len(pat), Len(text))

-----------------------------------------------------------------------------
(* redactSecrets: server.mjs lines 25-36 *)

REDACTED_API_KEY == Chars("***REDACTED_API_KEY***")
REDACTED == Chars("***REDACTED***")

\* the characters of \s in a regular expression, which are also those that
\* String.prototype.trim removes: tab, LF, VT, FF, CR, space, NBSP, U+1680,
\* U+2000..U+200A, U+2028, U+2029, U+202F, U+205F, U+3000, U+FEFF
SpaceChars ==
    {9, 10, 11, 12, 13, 32, 160, 5760, 8232, 8233, 8239, 8287, 12288, 65279}
        \cup (8192..8202)

\* /(Authorization["']?\s*:\s*["']?)[^"',\s}]+/gi
AuthWord == Chars("authorization")
QuoteChars == {34, 39}                          \* " and ' (the colon is 58)
ValueStops == {34, 39, 44, 125} \cup SpaceChars  \* " ' , } and \s

\* flag i: a letter A-Z matches as its small letter; no other character has a
\* case variant among the letters of the pattern
Lower(ch) == IF ch \in 65..90 THEN ch + 32 ELSE ch

\* the word Authorization, in any mix of cases, stands at index i
AuthWordAt(text, i) ==
    /\ i + Len(AuthWord) - 1 <= Len(text)
    /\ \A j \in 1..Len(AuthWord) : Lower(text[i + j - 1]) = AuthWord[j]

\* the first index k >= j at which text leaves the class S (Len(text)+1 at the end)
SkipWhile(text, j, S) ==
    CHOOSE k \in j..(Len(text) + 1) :
        /\ \A m \in j..(k - 1) : text[m] \in S
        /\ (k = Len(text) + 1 \/ text[k] \notin S)

\* the first index k >= j at which text enters the class S (Len(text)+1 at the end)
SkipUntil(text, j, S) ==
    CHOOSE k \in j..(Len(text) + 1) :
        /\ \A m \in j..(k - 1) : text[m] \notin S
        /\ (k = Len(text) + 1 \/ text[k] \in S)

SkipOpt(text, j, S) == IF j <= Len(text) /\ text[j] \in S THEN j + 1 ELSE j

\* the regular expression tried at index i: [ok, val, end], the value is text[val..end-1].
\* Every quantifier is greedy and none can give back: the class of the value holds
\* neither a quote nor white space, and a colon is neither.
AuthMatch(text, i) ==
    IF ~AuthWordAt(text, i) THEN [ok |-> FALSE, val |-> 0, end |-> 0]
    ELSE LET a == i + Len(AuthWord)
             b == SkipOpt(text, a, QuoteChars)
             c == SkipWhile(text, b, SpaceChars)
             colon == c <= Len(text) /\ text[c] = 58
             d == SkipWhile(text, c + 1, SpaceChars)
             e == SkipOpt(text, d, QuoteChars)
             f == SkipUntil(text, e, ValueStops)
         IN  IF colon /\ f > e
             THEN [ok |-> TRUE, val |-> e, end |-> f]
             ELSE [ok |-> FALSE, val |-> 0, end |-> 0]

\* flag g: the leftmost match from index i on is replaced, and the search goes on
\* behind it
RECURSIVE RedactAuthFrom(_, _)
RedactAuthFrom(text, i) ==
    IF \E j \in i..Len(text) : AuthMatch(text, j).ok
    THEN LET j == CHOOSE k \in i..Len(text) :
                    AuthMatch(text, k).ok /\ \A l \in i..(k - 1) : ~AuthMatch(text, l).ok
             m == AuthMatch(text, j)
         IN  SubSeq(text, i, m.val - 1) \o REDACTED \o RedactAuthFrom(text, m.end)
    ELSE SubSeq(text, i, Len(text))

\* \uXXXX, four small hexadecimal digits
UnicodeEscape(ch) ==
    LET hex == Chars("0123456789abcdef")
    IN  Chars("\\u") \o <<hex[(ch \div 4096) + 1], hex[((ch \div 256) % 16) + 1],
                           hex[((ch \div 16) % 16) + 1], hex[(ch % 16) + 1]>>

\* the pieces f[lo], ..., f[hi] put together
RECURSIVE Concat(_, _, _)
Concat(f, lo, hi) ==
    IF lo > hi THEN <<>>
    ELSE IF lo = hi THEN f[lo]
    ELSE LET mid == (lo + hi) \div 2
         IN  Concat(f, lo, mid) \o Concat(f, mid + 1, hi)

\* JSON.stringify of a string, without the quotes around it: the quote and the
\* backslash take a backslash; backspace, tab, LF, FF and CR are written \b \t \n \f \r;
\* every other character below U+0020 and every surrogate that is not part of a pair
\* (a high one before a low one) is written \uXXXX
JsonEscape(s) ==
    LET paired(i) ==
            \/ s[i] \in 55296..56319 /\ i < Len(s) /\ s[i + 1] \in 56320..57343
            \/ s[i] \in 56320..57343 /\ i > 1 /\ s[i - 1] \in 55296..56319
        written(i) ==
            CASE s[i] = 34 -> Chars("\\\"")
              [] s[i] = 92 -> Chars("\\\\")
              [] s[i] = 8 -> Chars("\\b")
              [] s[i] = 9 -> Chars("\\t")
              [] s[i] = 10 -> Chars("\\n")
              [] s[i] = 12 -> Chars("\\f")
              [] s[i] = 13 -> Chars("\\r")
              [] s[i] < 32 \/ (s[i] \in 55296..57343 /\ ~paired(i)) -> UnicodeEscape(s[i])
              [] OTHER -> <<s[i]>>
    IN  Concat([i \in 1..Len(s) |-> written(i)], 1, Len(s))

\* The values redactSecrets is given: a string, a structured value {error: s}
\* (JSON.stringify succeeds), a cyclic object (JSON.stringify throws), null, undefined.
RVal(t, s) == [t |-> t, s |-> s]

RedactText(value) ==
    CASE value.t = "string" -> value.s
      [] value.t = "object" ->
            Chars("{\"error\":\"") \o JsonEscape(value.s) \o Chars("\"}")
      [] OTHER -> Chars("[object Object]")

RedactString(text) ==
    RedactAuthFrom(ReplaceFirst(text, API_KEY, REDACTED_API_KEY), 1)

redactSecrets(value) ==
    IF value.t \in {"undefined", "null"} THEN value
    ELSE RVal("string", RedactString(RedactText(value)))

-----------------------------------------------------------------------------
(* The redactor on its own: every text made of up to MaxTextLen pieces *)

\* the halves of the key, a letter, a space, a tab, a colon, a quote, and the word in
\* two spellings
RedactAlphabet ==
    {Chars("sk"), Chars("7f"), Chars("x"), Chars(" "), <<9>>, Chars(":"), Chars("\""),
     Chars("Authorization"), Chars("aUTHORIZATION")}

RECURSIVE TextsUpTo(_)
TextsUpTo(n) ==
    IF n = 0 THEN {<<>>}
    ELSE {t \o a : t \in TextsUpTo(n - 1), a \in RedactAlphabet \cup {<<>>}}

RedactInputs ==
    {RVal(t, s) : t \in {"string", "object"}, s \in TextsUpTo(MaxTextLen)}
        \cup {RVal("cyclic", <<>>), RVal("null", <<>>), RVal("undefined", <<>>)}

Pending == RVal("pending", <<>>)

\* the search parameters before quoFetch has built them
NotBuilt == << <<<<0>>, <<0>>>> >>

-----------------------------------------------------------------------------
(* JSON: the values a response body parses to, and JSON.stringify *)

JStr(text) == [t |-> "jstr", s |-> text]
JNum(n) == [t |-> "num", n |-> n]
JBool(b) == [t |-> "bool", b |-> b]
JNull == [t |-> "null"]
JArr(items) == [t |-> "arr", a |-> items]
JObj(fields) == [t |-> "obj", f |-> fields]     \* fields: a sequence of <<key, value>>

Indent(n) == [i \in 1..n |-> 32]


\* JSON.stringify(v, null, step): step = 0 is the compact form, step = 2 the handlers' form
RECURSIVE Stringify(_, _, _)
RECURSIVE StringifyItems(_, _, _, _)
Stringify(v, step, ind) ==
    CASE v.t = "jstr" -> Chars("\"") \o JsonEscape(v.s) \o Chars("\"")
      [] v.t = "num" -> Digits(v.n)
      [] v.t = "bool" -> (IF v.b THEN Chars("true") ELSE Chars("false"))
      [] v.t = "null" -> Chars("null")
      [] v.t = "arr" ->
            IF v.a = <<>> THEN Chars("[]")
            ELSE Chars("[") \o StringifyItems(v.a, FALSE, step, ind + step)
                 \o (IF step > 0 THEN <<10>> \o Indent(ind) ELSE <<>>) \o Chars("]")
      [] v.t = "obj" ->
            IF v.f = <<>> THEN Chars("{}")
            ELSE Chars("{") \o StringifyItems(v.f, TRUE, step, ind + step)
                 \o (IF step > 0 THEN <<10>> \o Indent(ind) ELSE <<>>) \o Chars("}")

StringifyItems(items, keyed, step, ind) ==
    IF items = <<>> THEN <<>>
    ELSE LET x == Head(items)
             lead == IF step > 0 THEN <<10>> \o Indent(ind) ELSE <<>>
             key == IF keyed
                    THEN Chars("\"") \o JsonEscape(Chars(x[1])) \o Chars("\":")
                         \o (IF step > 0 THEN Chars(" ") ELSE <<>>)
                    ELSE <<>>
             val == Stringify(IF keyed THEN x[2] ELSE x, step, ind)
             sep == IF Len(items) > 1 THEN Chars(",") ELSE <<>>
         IN  lead \o key \o val \o sep \o StringifyItems(Tail(items), keyed, step, ind)

HasField(v, k) == v.t = "obj" /\ \E i \in 1..Len(v.f) : v.f[i][1] = k

\* v[k] of a parsed value: the last field of that name, undefined when there is none
Field(v, k) ==
    IF HasField(v, k)
    THEN v.f[CHOOSE i \in 1..Len(v.f) :
                v.f[i][1] = k /\ \A j \in (i + 1)..Len(v.f) : v.f[j][1] # k][2]
    ELSE Undef

\* JSON.parse of the text Stringify(v, 0, 0): an object keeps one property per name,
\* with the value written last at the place of the name written first, and its names
\* that are array indices (the numerals of 0 .. 2^32 - 2) come first, in ascending order
RECURSIVE Parsed(_)
Parsed(v) ==
    CASE v.t = "arr" -> JArr([i \in 1..Len(v.a) |-> Parsed(v.a[i])])
      [] v.t = "obj" ->
            LET f == v.f
                less(a, b) ==
                    \/ Len(a) < Len(b)
                    \/ /\ Len(a) = Len(b)
                       /\ \E i \in 1..Len(a) :
                            a[i] < b[i] /\ \A j \in 1..(i - 1) : a[j] = b[j]
                isIndex(k) ==
                    LET d == Chars(k)
                    IN  /\ Len(d) >= 1
                        /\ \A i \in 1..Len(d) : d[i] \in 48..57
                        /\ Len(d) = 1 \/ d[1] # 48
                        /\ less(d, Chars("4294967295"))
                firsts == SelectSeq([i \in 1..Len(f) |-> i],
                                    LAMBDA i : \A j \in 1..(i - 1) : f[j][1] # f[i][1])
                names == [n \in 1..Len(firsts) |-> f[firsts[n]][1]]
                indices == {names[n] : n \in {m \in 1..Len(names) : isIndex(names[m])}}
                rank(k) == Cardinality({x \in indices : less(Chars(x), Chars(k))}) + 1
                sorted == [r \in 1..Cardinality(indices) |->
                              CHOOSE k \in indices : rank(k) = r]
                order == sorted \o SelectSeq(names, LAMBDA k : ~isIndex(k))
            IN  JObj([n \in 1..Len(order) |-> <<order[n], Parsed(Field(v, order[n]))>>])
      [] OTHER -> v

\* the white space JSON.parse skips: tab, LF, CR, space
JsonSpace == {9, 10, 13, 32}

\* where JSON.parse stops on a text that is no JSON: at its first character behind the
\* white space or, when that is a [, at the first character behind it and the white
\* space that follows (Len(text) + 1: at the end of the text)
FaultAt(text) ==
    LET a == SkipWhile(text, 1, JsonSpace)
    IN  IF a <= Len(text) /\ text[a] = 91 THEN SkipWhile(text, a + 1, JsonSpace) ELSE a

\* A response body: its raw text, whether JSON.parse accepts it, what it parses to and,
\* when it does not parse, the fault JSON.parse finds: "eos" (the text ends where a
\* value is expected) or "token" (the character at FaultAt cannot begin a value).
\* The body whose text is v as JSON.stringify writes it:
JsonBody(v) ==
    [raw |-> Stringify(v, 0, 0), json |-> TRUE, value |-> Parsed(v), fault |-> "none"]

\* a text whose character at FaultAt, if there is one, begins no JSON value (it is none
\* of " - 0-9 [ { f n t) and, behind a [, is no ] either: a blank text, <html>, [oops
TextBody(text) ==
    [raw |-> text, json |-> FALSE, value |-> JNull,
     fault |-> IF FaultAt(text) > Len(text) THEN "eos" ELSE "token"]

\* a JSON text cut off where a value is expected, as {"data":
CutBody(text) == [raw |-> text, json |-> FALSE, value |-> JNull, fault |-> "eos"]

\* s.trim() is not the empty string
NonBlank(text) == \E i \in 1..Len(text) : text[i] \notin SpaceChars

-----------------------------------------------------------------------------
(* extractErrorMessage: server.mjs lines 38-49 *)

IsString(v) == v.t = "jstr"

\* error.message looked at before the top-level message
extractErrorMessageMutant(body) ==
    IF body.raw = <<>> THEN Chars("No response body")
    ELSE IF ~body.json THEN body.raw
    ELSE LET parsed == body.value
             message == Field(parsed, "message")
             error == Field(parsed, "error")
             errorMessage == Field(error, "message")
         IN  IF IsString(errorMessage) /\ NonBlank(errorMessage.s) THEN errorMessage.s
             ELSE IF IsString(message) /\ NonBlank(message.s) THEN message.s
             ELSE IF IsString(error) /\ NonBlank(error.s) THEN error.s
             ELSE body.raw

extractErrorMessage(body) ==
    IF body.raw = <<>> THEN Chars("No response body")
    ELSE IF ~body.json THEN body.raw
    ELSE LET parsed == body.value
             message == Field(parsed, "message")
             error == Field(parsed, "error")
             errorMessage == Field(error, "message")
         IN  IF IsString(message) /\ NonBlank(message.s) THEN message.s
             ELSE IF IsString(errorMessage) /\ NonBlank(errorMessage.s) THEN errorMessage.s
             ELSE IF IsString(error) /\ NonBlank(error.s) THEN error.s
             ELSE body.raw

-----------------------------------------------------------------------------
(* jsonToolResponse: server.mjs lines 51-56, and the result shapes of the handlers *)

ToolResult(text, isError) == [text |-> text, isError |-> isError]

\* the flag dropped
jsonToolResponseMutant(payload, isError) ==
    ToolResult(RVal("string", Stringify(payload, 2, 0)), FALSE)

jsonToolResponse(payload, isError) ==
    ToolResult(RVal("string", Stringify(payload, 2, 0)), isError)

-----------------------------------------------------------------------------
(* The zod schemas of the tools: server.mjs lines 113-466 *)

\* A constraint: kind string, number, boolean, enum, strings (array of strings) or
\* entries (array of objects); -1 stands for "no bound".
zBase(kind) ==
    [kind |-> kind, opt |-> FALSE, min |-> -1, max |-> -1, def |-> Undef,
     enum |-> {}, entry |-> "none"]
zString == zBase("string")
zNumber == zBase("number")
zStrings == zBase("strings")
zEnum(values) == [zBase("enum") EXCEPT !.enum = values]
zEntries(entry) == [zBase("entries") EXCEPT !.entry = entry]
zMin(c, n) == [c EXCEPT !.min = n]
zMax(c, n) == [c EXCEPT !.max = n]
zDefault(c, v) == [c EXCEPT !.def = v]
zOptional(c) == [c EXCEPT !.opt = TRUE]

\* .max(hi) left out
zMaxResultsMutant(hi) == zOptional(zDefault(zMin(zNumber, 1), Num(20)))

zMaxResults(hi) == zOptional(zDefault(zMax(zMin(zNumber, 1), hi), Num(20)))

\* the objects of phoneNumbers and emails: create_contact lines 196-203, update_contact 260-269
EntrySchema(entry) ==
    IF entry = "create"
    THEN [name |-> zDefault(zString, Str("primary")), value |-> zString]
    ELSE [name |-> zString, value |-> zString, id |-> zOptional(zString)]


Schema(tool) ==
    CASE tool = "send_text" ->
            [from |-> zString, to |-> zString,
             content |-> zMax(zMin(zString, 1), 1600),
             setInboxStatus |-> zOptional(zEnum({"done"}))]
      [] tool \in {"list_messages", "list_calls"} ->
            [phoneNumberId |-> zString, participants |-> zStrings,
             maxResults |-> zMaxResults(100),
             createdAfter |-> zOptional(zString), createdBefore |-> zOptional(zString),
             pageToken |-> zOptional(zString)]
      [] tool = "list_conversations" ->
            [phoneNumbers |-> zOptional(zStrings), userId |-> zOptional(zString),
             createdAfter |-> zOptional(zString), createdBefore |-> zOptional(zString),
             updatedAfter |-> zOptional(zString), updatedBefore |-> zOptional(zString),
             excludeInactive |-> zOptional(zBase("boolean")),
             maxResults |-> zMaxResults(100), pageToken |-> zOptional(zString)]
      [] tool = "create_contact" ->
            [firstName |-> zString, lastName |-> zOptional(zString),
             company |-> zOptional(zString), role |-> zOptional(zString),
             phoneNumbers |-> zOptional(zEntries("create")),
             emails |-> zOptional(zEntries("create"))]
      [] tool = "list_contacts" ->
            [maxResults |-> zMaxResults(50), pageToken |-> zOptional(zString),
             externalIds |-> zOptional(zStrings)]
      [] tool = "update_contact" ->
            [id |-> zString, firstName |-> zOptional(zString),
             lastName |-> zOptional(zString), company |-> zOptional(zString),
             role |-> zOptional(zString),
             phoneNumbers |-> zOptional(zEntries("update")),
             emails |-> zOptional(zEntries("update"))]
      [] tool \in {"get_message", "get_contact", "delete_contact"} -> [id |-> zString]
      [] tool \in {"get_call", "get_call_recordings", "get_call_summary",
                   "get_call_transcription", "get_voicemail"} -> [callId |-> zString]
      [] tool = "list_phone_numbers" -> [userId |-> zOptional(zString)]
      [] tool = "get_phone_number" -> [phoneNumberId |-> zString]
      [] tool = "get_user" -> [userId |-> zString]
      [] OTHER -> [x \in {} |-> zString]    \* list_users, get_contact_custom_fields, list_webhooks

-----------------------------------------------------------------------------
(* Validation of a parameter object against a schema (zod) *)

InBounds(c, n) == (c.min = -1 \/ n >= c.min) /\ (c.max = -1 \/ n <= c.max)

ScalarOk(c, v) ==
    CASE v.t = "undef" -> c.opt \/ c.def.t # "undef"
      [] c.kind = "string" -> v.t = "str" /\ InBounds(c, v.len)
      [] c.kind = "number" -> v.t = "num" /\ InBounds(c, v.n)
      [] c.kind = "boolean" -> v.t = "bool"
      [] c.kind = "enum" -> v.t = "str" /\ v.s \in c.enum
      [] OTHER -> FALSE

\* .default(d).optional(): ZodOptional answers undefined itself in zod 3 and hands
\* undefined to the inner ZodDefault in zod 4; the build decides which.
ScalarParsed(c, v) ==
    IF v.t # "undef" THEN v
    ELSE IF c.opt THEN (IF c.def.t # "undef" /\ zodDefaultInsideOptional THEN c.def ELSE Undef)
    ELSE c.def

ObjectOk(schema, o) == \A k \in DOMAIN schema : ScalarOk(schema[k], Get(o, k))

\* unknown keys are stripped; keys whose value is undefined are left out
ObjectParsed(schema, o) ==
    [k \in {x \in DOMAIN schema : ScalarParsed(schema[x], Get(o, x)).t # "undef"} |->
        ScalarParsed(schema[k], Get(o, k))]

ParamOk(c, v) ==
    CASE v.t = "undef" -> c.opt \/ c.def.t # "undef"
      [] c.kind = "strings" ->
            v.t = "arr" /\ \A i \in 1..Len(v.a) : v.a[i].t = "str"
      [] c.kind = "entries" ->
            v.t = "arr" /\ \A i \in 1..Len(v.a) :
                v.a[i].t = "obj" /\ ObjectOk(EntrySchema(c.entry), v.a[i].f)
      [] OTHER -> ScalarOk(c, v)

ParamParsed(c, v) ==
    IF c.kind = "entries" /\ v.t = "arr"
    THEN Arr([i \in 1..Len(v.a) |-> Obj(ObjectParsed(EntrySchema(c.entry), v.a[i].f))])
    ELSE ScalarParsed(c, v)

Valid(tool, args) == \A k \in DOMAIN Schema(tool) : ParamOk(Schema(tool)[k], Get(args, k))

Violations(tool, args) ==
    {k \in DOMAIN Schema(tool) : ~ParamOk(Schema(tool)[k], Get(args, k))}

Validated(tool, args) ==
    [k \in {x \in DOMAIN Schema(tool) :
                ParamParsed(Schema(tool)[x], Get(args, x)).t # "undef"} |->
        ParamParsed(Schema(tool)[k], Get(args, k))]

-----------------------------------------------------------------------------
(* The handlers up to their call of quoFetch: server.mjs lines 122-466 *)

NoBody == [has |-> FALSE, v |-> <<>>]
Body(o) == [has |-> TRUE, v |-> o]

\* what a handler does with its validated parameters: answer at once, or call
\* quoFetch(path, {method, params, body}) and shape the result (unwrap)
FetchPlan(method, path, params, body, unwrap) ==
    [kind |-> "fetch", method |-> method, path |-> path, params |-> params,
     body |-> body, unwrap |-> unwrap, result |-> ToolResult(RVal("undefined", <<>>), FALSE)]
RespondPlan(res) ==
    [kind |-> "respond", method |-> "GET", path |-> <<>>, params |-> <<>>,
     body |-> NoBody, unwrap |-> "none", result |-> res]

\* a page token kept from the call before and sent when the call gives none
ParamsMutant(a, keys) ==
    [i \in 1..Len(keys) |->
        <<keys[i], IF keys[i] = "pageToken" /\ Get(a, keys[i]).t = "undef"
                   THEN hist.pageToken ELSE Get(a, keys[i])>>]

\* the object literal { k1, k2, ... } of the named parameters, in that order
Params(a, keys) == [i \in 1..Len(keys) |-> <<keys[i], Get(a, keys[i])>>]

\* the keys of a whose value passes the test
Defined(a, keys) == {k \in keys : Get(a, k).t # "undef"}
TruthyKeys(a, keys) == {k \in keys : Truthy(Get(a, k))}
Pick(a, keys) == [k \in keys |-> a[k]]

ContactFields == {"firstName", "lastName", "company", "role", "phoneNumbers", "emails"}

NoFieldsPayload ==
    JObj(<< <<"error", JObj(<<
        <<"message", JStr(Chars("No fields provided for update_contact"))>>,
        <<"details", JStr(Chars("Pass at least one of: firstName, lastName, company, role, phoneNumbers, emails."))>> >>)>> >>)

ListKeys == <<"phoneNumberId", "participants", "maxResults", "createdAfter",
              "createdBefore", "pageToken">>

ConversationKeys == <<"phoneNumbers", "userId", "createdAfter", "createdBefore",
                      "updatedAfter", "updatedBefore", "excludeInactive", "maxResults",
                      "pageToken">>

ContactListKeys == <<"maxResults", "pageToken", "externalIds">>

\* the fields tested for truthiness, as create_contact does, and no check that one is left
update_contactMutant(a) ==
    FetchPlan("PATCH", <<"/contacts/", Get(a, "id").s>>, <<>>,
              Body([defaultFields |-> Pick(a, TruthyKeys(a, ContactFields))]), "data")

update_contact(a) ==
    LET defaultFields == Pick(a, Defined(a, ContactFields))
    IN  IF DOMAIN defaultFields = {}
        THEN RespondPlan(jsonToolResponse(NoFieldsPayload, TRUE))
        ELSE FetchPlan("PATCH", <<"/contacts/", Get(a, "id").s>>, <<>>,
                       Body([defaultFields |-> defaultFields]), "data")

create_contact(a) ==
    FetchPlan("POST", <<"/contacts">>, <<>>,
              Body([defaultFields |->
                      Pick(a, {"firstName"} \cup TruthyKeys(a, ContactFields \ {"firstName"}))]),
              "data")

send_text(a) ==
    FetchPlan("POST", <<"/messages">>, <<>>,
              Body([k \in {"from", "to", "content"} \cup TruthyKeys(a, {"setInboxStatus"}) |->
                      IF k = "to" THEN Arr(<<a.to>>) ELSE a[k]]),
              "data")

Plan(tool, a) ==
    CASE tool = "send_text" -> send_text(a)
      [] tool = "list_messages" -> FetchPlan("GET", <<"/messages">>, Params(a, ListKeys), NoBody, "whole")
      [] tool = "get_message" -> FetchPlan("GET", <<"/messages/", a.id.s>>, <<>>, NoBody, "data")
      [] tool = "list_conversations" ->
            FetchPlan("GET", <<"/conversations">>, Params(a, ConversationKeys), NoBody, "whole")
      [] tool = "create_contact" -> create_contact(a)
      [] tool = "list_contacts" ->
            FetchPlan("GET", <<"/contacts">>, Params(a, ContactListKeys), NoBody, "whole")
      [] tool = "get_contact" -> FetchPlan("GET", <<"/contacts/", a.id.s>>, <<>>, NoBody, "data")
      [] tool = "update_contact" -> update_contact(a)
      [] tool = "delete_contact" ->
            FetchPlan("DELETE", <<"/contacts/", a.id.s>>, <<>>, NoBody, "deleted")
      [] tool = "list_calls" -> FetchPlan("GET", <<"/calls">>, Params(a, ListKeys), NoBody, "whole")
      [] tool = "get_call" -> FetchPlan("GET", <<"/calls/", a.callId.s>>, <<>>, NoBody, "data")
      [] tool = "get_call_recordings" ->
            FetchPlan("GET", <<"/call-recordings/", a.callId.s>>, <<>>, NoBody, "data")
      [] tool = "get_call_summary" ->
            FetchPlan("GET", <<"/call-summaries/", a.callId.s>>, <<>>, NoBody, "data")
      [] tool = "get_call_transcription" ->
            FetchPlan("GET", <<"/call-transcripts/", a.callId.s>>, <<>>, NoBody, "data")
      [] tool = "get_voicemail" ->
            FetchPlan("GET", <<"/call-voicemails/", a.callId.s>>, <<>>, NoBody, "data")
      [] tool = "list_phone_numbers" ->
            FetchPlan("GET", <<"/phone-numbers">>,
                      IF Truthy(Get(a, "userId")) THEN Params(a, <<"userId">>) ELSE <<>>,
                      NoBody, "data")
      [] tool = "get_phone_number" ->
            FetchPlan("GET", <<"/phone-numbers/", a.phoneNumberId.s>>, <<>>, NoBody, "data")
      [] tool = "list_users" -> FetchPlan("GET", <<"/users">>, <<>>, NoBody, "data")
      [] tool = "get_user" -> FetchPlan("GET", <<"/users/", a.userId.s>>, <<>>, NoBody, "data")
      [] tool = "get_contact_custom_fields" ->
            FetchPlan("GET", <<"/contact-custom-fields">>, <<>>, NoBody, "data")
      [] OTHER -> FetchPlan("GET", <<"/webhooks">>, <<>>, NoBody, "data")   \* list_webhooks

\* `Contact ${id} deleted.`
DeletedMessage(id) == Chars("Contact ") \o Chars(id) \o Chars(" deleted.")

\* the TypeError of V8 for result.data when result is null
NullDataMessage == Chars("Cannot read properties of null (reading 'data')")

\* every handler unwrapping .data
ResultTextMutant(unwrap, value, a) ==
    CASE unwrap = "deleted" -> RVal("string", DeletedMessage(a.id.s))
      [] OTHER ->
            IF value.t = "null" THEN RVal("TypeError", NullDataMessage)
            ELSE IF HasField(value, "data")
            THEN RVal("string", Stringify(Field(value, "data"), 2, 0))
            ELSE RVal("undefined", <<>>)

\* the handler after quoFetch returned value: the text of its result, or the TypeError
\* it throws when it reads .data of null (JSON.stringify(undefined, null, 2) is undefined)
ResultText(unwrap, value, a) ==
    CASE unwrap = "whole" -> RVal("string", Stringify(value, 2, 0))
      [] unwrap = "deleted" -> RVal("string", DeletedMessage(a.id.s))
      [] OTHER ->
            IF value.t = "null" THEN RVal("TypeError", NullDataMessage)
            ELSE IF HasField(value, "data")
            THEN RVal("string", Stringify(Field(value, "data"), 2, 0))
            ELSE RVal("undefined", <<>>)

-----------------------------------------------------------------------------
(* new URL(`${BASE_URL}${path}`), line 59: the URL parser of the platform on the text *)
(* of BASE_URL followed by the path the handler made                                  *)

BASE_URL == Chars("https://api.openphone.com/v1")

\* the bytes of UTF-8 for a code point
Utf8(cp) ==
    IF cp < 128 THEN <<cp>>
    ELSE IF cp < 2048 THEN <<192 + (cp \div 64), 128 + (cp % 64)>>
    ELSE IF cp < 65536
    THEN <<224 + (cp \div 4096), 128 + ((cp \div 64) % 64), 128 + (cp % 64)>>
    ELSE <<240 + (cp \div 262144), 128 + ((cp \div 4096) % 64),
           128 + ((cp \div 64) % 64), 128 + (cp % 64)>>

\* the bytes the character at index i of a text is sent as: a high surrogate before a
\* low one gives the bytes of their code point and the low one none; a surrogate that
\* is in no pair goes as U+FFFD
BytesAt(text, i) ==
    LET high(j) == j >= 1 /\ j <= Len(text) /\ text[j] \in 55296..56319
        low(j) == j >= 1 /\ j <= Len(text) /\ text[j] \in 56320..57343
    IN  IF high(i) /\ low(i + 1)
        THEN Utf8(65536 + (text[i] - 55296) * 1024 + (text[i + 1] - 56320))
        ELSE IF low(i) /\ high(i - 1) THEN <<>>
        ELSE IF high(i) \/ low(i) THEN Utf8(65533)
        ELSE Utf8(text[i])

\* a segment of the path as the URL keeps it: the controls, the space, " # < > ? ` { }
\* and every character above U+007E are written as their bytes, each %XX in capitals
PathEncode(seg) ==
    LET hex == Chars("0123456789ABCDEF")
        escaped(b) == <<37, hex[(b \div 16) + 1], hex[(b % 16) + 1]>>
        bytes(i) == BytesAt(seg, i)
        written(i) ==
            IF seg[i] < 32 \/ seg[i] > 126 \/ seg[i] \in {32, 34, 35, 60, 62, 63, 96, 123, 125}
            THEN Concat([k \in 1..Len(bytes(i)) |-> escaped(bytes(i)[k])], 1, Len(bytes(i)))
            ELSE <<seg[i]>>
    IN  Concat([i \in 1..Len(seg) |-> written(i)], 1, Len(seg))

\* the path state of the parser from index i of text on, the segments before it being
\* done: a segment ends at / or \ ; the segment .. (also written with %2e, in either
\* case) takes the last segment away, the segment . adds none, and each of the two,
\* when it is the last, leaves an empty segment
RECURSIVE PathSegments(_, _, _)
PathSegments(text, i, done) ==
    LET e == SkipUntil(text, i, {47, 92})
        seg == PathEncode(SubSeq(text, i, e - 1))
        form == [k \in 1..Len(seg) |-> Lower(seg[k])]
        last == e > Len(text)
        double == form \in {Chars(".."), Chars(".%2e"), Chars("%2e."), Chars("%2e%2e")}
        single == form \in {Chars("."), Chars("%2e")}
        shorter == IF done = <<>> THEN done ELSE SubSeq(done, 1, Len(done) - 1)
        now == IF double THEN (IF last THEN Append(shorter, <<>>) ELSE shorter)
               ELSE IF single THEN (IF last THEN Append(done, <<>>) ELSE done)
               ELSE Append(done, seg)
    IN  IF last THEN now ELSE PathSegments(text, e + 1, now)

\* the text a list of bytes is in UTF-8; a byte, or a sequence cut short, that is no
\* UTF-8 gives U+FFFD
RECURSIVE Utf8Decode(_, _)
Utf8Decode(b, i) ==
    IF i > Len(b) THEN <<>>
    ELSE LET x == b[i]
             need == IF x < 128 THEN 0
                     ELSE IF x \in 194..223 THEN 1
                     ELSE IF x \in 224..239 THEN 2
                     ELSE IF x \in 240..244 THEN 3
                     ELSE -1
             lower == IF x = 224 THEN 160 ELSE IF x = 240 THEN 144 ELSE 128
             upper == IF x = 237 THEN 159 ELSE IF x = 244 THEN 143 ELSE 191
             follows(k) ==
                 /\ i + k <= Len(b)
                 /\ b[i + k] >= (IF k = 1 THEN lower ELSE 128)
                 /\ b[i + k] <= (IF k = 1 THEN upper ELSE 191)
             good == IF need < 1 THEN 0
                     ELSE CHOOSE g \in 0..need :
                            /\ \A k \in 1..g : follows(k)
                            /\ g = need \/ ~follows(g + 1)
             lead == IF need = 1 THEN x - 192 ELSE IF need = 2 THEN x - 224 ELSE x - 240
             cp == IF need = 1 THEN lead * 64 + (b[i + 1] - 128)
                   ELSE IF need = 2 THEN lead * 4096 + (b[i + 1] - 128) * 64 + (b[i + 2] - 128)
                   ELSE lead * 262144 + (b[i + 1] - 128) * 4096 + (b[i + 2] - 128) * 64
                        + (b[i + 3] - 128)
             units == IF cp < 65536 THEN <<cp>>
                      ELSE <<55296 + ((cp - 65536) \div 1024), 56320 + ((cp - 65536) % 1024)>>
         IN  IF need = 0 THEN <<x>> \o Utf8Decode(b, i + 1)
             ELSE IF need = -1 THEN <<65533>> \o Utf8Decode(b, i + 1)
             ELSE IF good = need THEN units \o Utf8Decode(b, i + need + 1)
             ELSE <<65533>> \o Utf8Decode(b, i + good + 1)

\* a name or a value of a query as URLSearchParams reads it: + is a space, %XX is the
\* byte XX, and the bytes are UTF-8
FormDecode(text) ==
    LET digit(j) == j <= Len(text) /\ text[j] \in (48..57) \cup (65..70) \cup (97..102)
        val(ch) == IF ch <= 57 THEN ch - 48 ELSE IF ch <= 70 THEN ch - 55 ELSE ch - 87
        escape(j) == j >= 1 /\ text[j] = 37 /\ digit(j + 1) /\ digit(j + 2)
        bytes(i) == IF escape(i) THEN <<val(text[i + 1]) * 16 + val(text[i + 2])>>
                    ELSE IF escape(i - 1) \/ escape(i - 2) THEN <<>>
                    ELSE IF text[i] = 43 THEN <<32>>
                    ELSE BytesAt(text, i)
    IN  Utf8Decode(Concat([i \in 1..Len(text) |-> bytes(i)], 1, Len(text)), 1)

\* url.searchParams of a URL whose query is text: the pieces between the & that are
\* not empty, each cut at its first =
RECURSIVE SearchParse(_, _)
SearchParse(text, i) ==
    IF i > Len(text) THEN <<>>
    ELSE LET e == SkipUntil(text, i, {38})
             piece == SubSeq(text, i, e - 1)
             eq == SkipUntil(piece, 1, {61})
             entry == <<FormDecode(SubSeq(piece, 1, eq - 1)),
                        FormDecode(SubSeq(piece, eq + 1, Len(piece)))>>
         IN  (IF piece = <<>> THEN <<>> ELSE <<entry>>) \o SearchParse(text, e + 1)

\* new URL(text) for a text that begins with BASE_URL: tab, LF and CR are dropped and
\* the controls and spaces at its end cut off; the host ends at the first / \ ? or #
\* behind https://, a # begins the fragment, which is not sent, a ? before it the
\* query, and between the host and them lies the path
ParseUrl(input) ==
    LET kept == SelectSeq(input, LAMBDA ch : ch \notin {9, 10, 13})
        n == CHOOSE k \in 0..Len(kept) :
                /\ k = 0 \/ kept[k] > 32
                /\ \A j \in (k + 1)..Len(kept) : kept[j] <= 32
        text == SubSeq(kept, 1, n)
        host == SkipUntil(text, Len(Chars("https://")) + 1, {47, 92, 63, 35})
        hash == SkipUntil(text, host, {35})
        mark == SkipUntil(text, host, {63, 35})
        segments == IF mark = host THEN <<<<>>>> ELSE PathSegments(SubSeq(text, 1, mark - 1), host + 1, <<>>)
    IN  [pathname |-> Concat([k \in 1..Len(segments) |-> <<47>> \o segments[k]],
                             1, Len(segments)),
         search |-> SearchParse(SubSeq(text, mark + 1, hash - 1), 1)]

-----------------------------------------------------------------------------
(* quoFetch: server.mjs lines 58-102 *)

\* URLSearchParams, a list of <<name, value>>, each a text
SearchAppend(list, k, s) == Append(list, <<k, s>>)

\* set: the first entry of the name takes the value, every other entry of the name goes
SearchSet(list, k, s) ==
    IF \E i \in 1..Len(list) : list[i][1] = k
    THEN LET first == CHOOSE i \in 1..Len(list) :
                        list[i][1] = k /\ \A j \in 1..(i - 1) : list[j][1] # k
         IN  SubSeq(list, 1, first - 1) \o << <<k, s>> >>
             \o SelectSeq(SubSeq(list, first + 1, Len(list)), LAMBDA e : e[1] # k)
    ELSE Append(list, <<k, s>>)

RECURSIVE AppendEach(_, _, _)
AppendEach(list, k, items) ==
    IF items = <<>> THEN list
    ELSE AppendEach(SearchAppend(list, k, Chars(ToStr(Head(items)))), k, Tail(items))

\* the loop without its test for undefined and null
RECURSIVE BuildQueryMutant(_, _)
BuildQueryMutant(list, params) ==
    IF params = <<>> THEN list
    ELSE LET k == Chars(Head(params)[1])
             v == Head(params)[2]
         IN  BuildQueryMutant(IF v.t = "arr" THEN AppendEach(list, k, v.a)
                              ELSE SearchSet(list, k, Chars(ToStr(v))),
                              Tail(params))

\* lines 60-70: the loop over Object.entries(params)
RECURSIVE BuildQuery(_, _)
BuildQuery(list, params) ==
    IF params = <<>> THEN list
    ELSE LET k == Chars(Head(params)[1])
             v == Head(params)[2]
         IN  BuildQuery(IF v.t \in {"undef", "null"} THEN list
                        ELSE IF v.t = "arr" THEN AppendEach(list, k, v.a)
                        ELSE SearchSet(list, k, Chars(ToStr(v))),
                        Tail(params))

\* lines 59-84: the request handed to fetch. Its path is the pathname of the URL and
\* its query the entries of url.searchParams: those the URL's own query gave, then
\* those of the loop
OutboundRequest(plan) ==
    LET path == Concat([k \in 1..Len(plan.path) |-> Chars(plan.path[k])], 1, Len(plan.path))
        url == ParseUrl(BASE_URL \o path)
    IN  [method |-> plan.method, path |-> url.pathname,
         query |-> BuildQuery(url.search, plan.params),
         authorization |-> API_KEY, body |-> plan.body]

TimeoutMessage ==
    Chars("Quo API request timed out after ") \o Digits(HTTP_TIMEOUT_MS) \o Chars("ms")

\* redactSecrets of a text: the detail of line 88 and the message of any other error
\* caught in quoFetch, line 98
Redacted(text) == redactSecrets(RVal("string", text)).s

\* lines 86-90: the error thrown for a non-2xx response
HttpErrorMessage(r) ==
    LET detail == Redacted(extractErrorMessage(r.body))
    IN  Chars("Quo API ") \o Digits(r.status) \o Chars(" ") \o r.statusText \o Chars(": ") \o detail

\* the message of the AbortError that fetch and the body reads reject with
AbortMessage == Chars("This operation was aborted")

\* line 93: res.json() is returned, not awaited: its rejection passes the catch clause by.
\* The SyntaxError of V8 for a body with fault "eos" or "token".  For an unexpected
\* character V8 names it with its place (Node 18: quoting FALSE) or names it and quotes
\* the text (Node 20 and later: quoting TRUE): the whole text when it has fewer than 21
\* characters, else up to 10 characters on each side of the fault.  Four texts have
\* a message of their own there.
ParseErrorMessage(body, quoting) ==
    LET raw == body.raw
        at == FaultAt(raw)
        pos == at - 1
        len == Len(raw)
        named == Chars("Unexpected token '") \o <<raw[at]>> \o Chars("', ")
        quote == Chars("\"")
        dots == Chars("...")
        tail == Chars(" is not valid JSON")
    IN  IF body.fault = "eos" THEN Chars("Unexpected end of JSON input")
        ELSE IF ~quoting
        THEN Chars("Unexpected token ") \o <<raw[at]>> \o Chars(" in JSON at position ")
             \o Digits(pos)
        ELSE IF raw \in {Chars("[object Object]"), Chars("undefined"), Chars("Infinity"),
                         Chars("NaN")}
        THEN quote \o raw \o quote \o tail
        ELSE IF len < 21
        THEN named \o quote \o raw \o quote \o tail
        ELSE IF pos < 10
        THEN named \o quote \o SubSeq(raw, 1, pos + 10) \o quote \o dots \o tail
        ELSE IF pos < len - 10
        THEN named \o dots \o quote \o SubSeq(raw, pos - 9, pos + 10) \o quote
             \o dots \o tail
        ELSE named \o dots \o quote \o SubSeq(raw, pos - 9, len) \o quote \o tail

-----------------------------------------------------------------------------
(* The dispatch boundary (McpServer of the MCP SDK): validation before the handler, *)
(* and every error turned into a result with isError set                            *)

ThrownResult(message) == ToolResult(RVal("string", message), TRUE)

ValidationMessage(tool, args) ==
    LET k == CHOOSE x \in Violations(tool, args) : TRUE
    IN  Chars("Invalid arguments for tool ") \o Chars(tool) \o Chars(": ") \o Chars(k)

ValidationResult(tool, args) == ThrownResult(ValidationMessage(tool, args))

-----------------------------------------------------------------------------
(* The inputs: tool calls *)

Req(tool, args) == [tool |-> tool, args |-> args]
NoArgs == [x \in {} |-> Undef]

PN == Str("PN1")
Peer == Str("+15550001")
TokA == Str("tokA")
TokB == Str("tok B&=")
Id == Str("id1")
Phone == Obj([name |-> Str("mobile"), value |-> Str("+15550003")])
PhoneNoName == Obj([value |-> Str("+15550003")])
Mail == Obj([name |-> Str("work"), value |-> Str("a@b.c"), id |-> Str("E1")])

SendTextRequests ==
    {Req("send_text", a) : a \in
        {[from |-> PN, to |-> Peer, content |-> LongStr(1)],
         [from |-> PN, to |-> Peer, content |-> LongStr(1600), setInboxStatus |-> Str("done")],
         [from |-> PN, to |-> Peer, content |-> LongStr(0)],
         [from |-> PN, to |-> Peer, content |-> LongStr(1601)],
         [from |-> PN, to |-> Peer, content |-> LongStr(5), setInboxStatus |-> Str("open")],
         [from |-> PN, content |-> LongStr(5)]}}

ListArgs ==
    {[phoneNumberId |-> PN, participants |-> Arr(<<Str("+15550002"), Peer>>), maxResults |-> Num(100),
      createdAfter |-> Str("2025-01-01T00:00:00Z"), pageToken |-> TokA],
     [phoneNumberId |-> PN, participants |-> Arr(<<Peer>>)],
     [phoneNumberId |-> PN, participants |-> Arr(<<>>), maxResults |-> Num(1),
      pageToken |-> TokB],
     [phoneNumberId |-> PN, participants |-> Arr(<<Peer>>), maxResults |-> Num(0)],
     [phoneNumberId |-> PN, participants |-> Arr(<<Peer>>), maxResults |-> Num(101)],
     [phoneNumberId |-> PN, pageToken |-> TokA]}

ListRequests == {Req(t, a) : t \in {"list_messages", "list_calls"}, a \in ListArgs}

ConversationRequests ==
    {Req("list_conversations", a) : a \in
        {NoArgs,
         [phoneNumbers |-> Arr(<<PN, Peer>>), userId |-> Str(""),
          excludeInactive |-> Bool(FALSE), maxResults |-> Num(1), pageToken |-> TokA],
         [pageToken |-> TokB, excludeInactive |-> Bool(TRUE)],
         [maxResults |-> Num(101)],
         [pageToken |-> Num(5)]}}

ContactListRequests ==
    {Req("list_contacts", a) : a \in
        {NoArgs,
         [maxResults |-> Num(50), pageToken |-> TokB, externalIds |-> Arr(<<Id, PN>>)],
         [pageToken |-> TokA],
         [maxResults |-> Num(51)],
         [maxResults |-> Num(0), pageToken |-> TokA],
         [pageToken |-> Null]}}

CreateContactRequests ==
    {Req("create_contact", a) : a \in
        {[firstName |-> Str("Ann")],
         [firstName |-> Str("Ann"), lastName |-> Str(""), company |-> Str("Acme"),
          phoneNumbers |-> Arr(<<PhoneNoName>>), emails |-> Arr(<<>>)],
         [lastName |-> Str("Lee")],
         [firstName |-> Str("Ann"), phoneNumbers |-> Arr(<<Obj([name |-> Str("mobile")])>>)]}}

UpdateFieldValues ==
    [firstName |-> Str("Ann"), lastName |-> Str(""), company |-> Str("Acme"),
     role |-> Str("CTO"), phoneNumbers |-> Arr(<<Phone>>), emails |-> Arr(<<Mail>>)]

UpdateSupplied ==
    {{}} \cup {{k} : k \in ContactFields} \cup {ContactFields, {"firstName", "emails"}}

UpdateContactRequests ==
    {Req("update_contact", [k \in fs \cup {"id"} |->
                               IF k = "id" THEN Id ELSE UpdateFieldValues[k]]) :
        fs \in UpdateSupplied}
    \cup {Req("update_contact", a) : a \in
        {[id |-> Id, nickname |-> Str("Annie")],
         [firstName |-> Str("Ann")],
         [id |-> Id, phoneNumbers |-> Arr(<<PhoneNoName>>)],
         [id |-> Id, role |-> Null]}}

ByIdRequests ==
    {Req(t, [id |-> Id]) : t \in {"get_message", "get_contact", "delete_contact"}}
    \cup {Req(t, [callId |-> Str("AC1")]) :
            t \in {"get_call", "get_call_recordings", "get_call_summary",
                   "get_call_transcription", "get_voicemail"}}
    \cup {Req("get_phone_number", [phoneNumberId |-> PN]), Req("get_user", [userId |-> Str("US1")]),
          Req("get_message", NoArgs), Req("delete_contact", NoArgs),
          Req("get_call", [callId |-> Num(7)]),
          Req("get_contact", [id |-> Str("a?x=1&x=%C3%A9+#f")]),
          Req("delete_contact", [id |-> Str("../messages/M1")]),
          Req("get_message", [id |-> Str("%2E./a b\\.")])}

PlainListRequests ==
    {Req("list_phone_numbers", NoArgs), Req("list_phone_numbers", [userId |-> Str("US1")]),
     Req("list_phone_numbers", [userId |-> Str("")]),
     Req("list_users", NoArgs), Req("list_users", [pageToken |-> TokA]),
     Req("get_contact_custom_fields", NoArgs), Req("list_webhooks", NoArgs)}

Requests ==
    SendTextRequests \cup ListRequests \cup ConversationRequests \cup ContactListRequests
    \cup CreateContactRequests \cup UpdateContactRequests \cup ByIdRequests
    \cup PlainListRequests

-----------------------------------------------------------------------------
(* The inputs: what the remote API answers *)

Response(status, statusText, body) ==
    [status |-> status, statusText |-> statusText, body |-> body]

KeyText == Chars("bad key ") \o API_KEY

\* bodies of 2xx answers: JSON objects and arrays (the remote's contract), an object
\* that writes a name twice and has a numeral for a name, the JSON text null, a page
\* that is no JSON (one short, one longer than the SyntaxError quotes in
\* full), a JSON text cut off, and nothing
OkBodies ==
    {JsonBody(JObj(<< <<"data", JObj(<< <<"id", JStr(Chars("AC1"))>>,
                                        <<"direction", JStr(Chars("outgoing"))>> >>)>> >>)),
     JsonBody(JObj(<< <<"data", JArr(<<JObj(<< <<"id", JStr(Chars("M1"))>> >>)>>)>>,
                      <<"totalItems", JNum(1)>>,
                      <<"nextPageToken", JStr(Chars("tokB"))>> >>)),
     JsonBody(JArr(<<JObj(<< <<"id", JStr(Chars("M1"))>> >>)>>)),
     JsonBody(JObj(<< <<"nextPageToken", JStr(Chars("tokA"))>>,
                      <<"data", JObj(<< <<"id", JStr(Chars("M1"))>> >>)>>,
                      <<"0", JNum(1)>>,
                      <<"data", JObj(<< <<"id", JStr(Chars("M2"))>> >>)>> >>)),
     JsonBody(JNull),
     TextBody(Chars("<html>") \o KeyText),
     TextBody(Chars(" <!DOCTYPE html><html>") \o KeyText),
     CutBody(Chars("{\"data\":")),
     TextBody(<<>>)}

\* bodies of non-2xx answers
ErrBodies ==
    {JsonBody(JObj(<< <<"message", JStr(Chars("Contact not found"))>> >>)),
     JsonBody(JObj(<< <<"message", JStr(<<32, 9, 160>>)>>,
                      <<"error", JObj(<< <<"message", JStr(KeyText)>> >>)>> >>)),
     JsonBody(JObj(<< <<"error", JStr(Chars("denied"))>>, <<"message", JNum(5)>> >>)),
     JsonBody(JObj(<< <<"error", JObj(<< <<"message", JStr(Chars("inner"))>> >>)>>,
                      <<"message", JStr(Chars("Rate limited"))>> >>)),
     JsonBody(JObj(<< <<"error", JObj(<< <<"code", JStr(API_KEY)>> >>)>> >>)),
     TextBody(Chars("AuthoriZation:") \o <<9>> \o API_KEY \o Chars(", ") \o KeyText),
     TextBody(KeyText \o Chars(" ") \o KeyText \o Chars(" ") \o KeyText),
     TextBody(<<>>)}

Responses ==
    {Response(200, Chars("OK"), b) : b \in OkBodies}
    \cup {Response(204, Chars("No Content"), TextBody(<<>>))}
    \cup {Response(404, Chars("Not Found"), b) : b \in ErrBodies}
    \cup {Response(401, Chars("Unauthorized"),
                    JsonBody(JObj(<< <<"message", JStr(KeyText)>> >>)))}

\* what fetch or a body read rejects with when the transport fails
TransportErrors == {Chars("fetch failed"), Chars("terminated")}

-----------------------------------------------------------------------------
(* The server: calls arrive one after the other, each in its own context *)

Slots == {1}

NoReq == Req("none", NoArgs)
NoResp == Response(0, <<>>, TextBody(<<>>))
NoHist == [isError |-> FALSE, pageToken |-> Undef]

Init ==
    /\ pc = [c \in Slots |-> "idle"]
    /\ req = [c \in Slots |-> NoReq]
    /\ out = [c \in Slots |-> <<>>]
    /\ timer = [c \in Slots |-> "none"]
    /\ aborted = [c \in Slots |-> FALSE]
    /\ expired = [c \in Slots |-> FALSE]
    /\ resp = [c \in Slots |-> NoResp]
    /\ result = [c \in Slots |-> <<>>]
    /\ cause = [c \in Slots |-> "none"]
    /\ raised = [c \in Slots |-> <<>>]
    /\ served = 0
    /\ hist = NoHist
    /\ zodDefaultInsideOptional \in BOOLEAN
    /\ rin = Pending
    /\ rout = Pending
    /\ qin = <<>>
    /\ qout = NotBuilt

ThePlan(c) == Plan(req[c].tool, Validated(req[c].tool, req[c].args))

\* the call returns res to the caller; why names the failure and text is the message
\* of the error as raised
Finish(c, res, why, text) ==
    /\ result' = [result EXCEPT ![c] = Append(@, res)]
    /\ cause' = [cause EXCEPT ![c] = why]
    /\ raised' = [raised EXCEPT ![c] = text]
    /\ pc' = [pc EXCEPT ![c] = "done"]

\* the finally clause of quoFetch: clearTimeout(timeoutHandle)
ClearTimer(c) == timer' = [timer EXCEPT ![c] = "cleared"]

\* a tool call arrives
Receive(c, r) ==
    /\ pc[c] = "idle"
    /\ served < MaxCalls
    /\ req' = [req EXCEPT ![c] = r]
    /\ pc' = [pc EXCEPT ![c] = "validating"]
    /\ UNCHANGED <<out, timer, aborted, expired, resp, result, cause, raised, served, hist,
                   zodDefaultInsideOptional, pureVars>>

\* the parameters violate the schema: the handler is not run
RejectInvalid(c) ==
    /\ pc[c] = "validating"
    /\ ~Valid(req[c].tool, req[c].args)
    /\ Finish(c, ValidationResult(req[c].tool, req[c].args), "validation",
              ValidationMessage(req[c].tool, req[c].args))
    /\ UNCHANGED <<req, out, timer, aborted, expired, resp, served, hist,
                   zodDefaultInsideOptional, pureVars>>

\* the handler runs up to its first await: it answers at once (update_contact without
\* fields) or quoFetch builds the request, arms the timer and calls fetch
RunHandler(c) ==
    /\ pc[c] = "validating"
    /\ Valid(req[c].tool, req[c].args)
    /\ IF ThePlan(c).kind = "respond"
       THEN /\ Finish(c, ThePlan(c).result, "nofields", <<>>)
            /\ UNCHANGED <<out, timer>>
       ELSE /\ out' = [out EXCEPT ![c] = Append(@, OutboundRequest(ThePlan(c)))]
            /\ timer' = [timer EXCEPT ![c] = "armed"]
            /\ pc' = [pc EXCEPT ![c] = "fetching"]
            /\ UNCHANGED <<result, cause, raised>>
    /\ UNCHANGED <<req, aborted, expired, resp, served, hist,
                   zodDefaultInsideOptional, pureVars>>

\* one AbortController for the whole module: the abort reaches every request in flight
DeadlinePassesMutant(c) ==
    /\ pc[c] \in {"fetching", "errbody", "okbody"}
    /\ ~expired[c]
    /\ expired' = [expired EXCEPT ![c] = TRUE]
    /\ IF timer[c] = "armed"
       THEN /\ timer' = [timer EXCEPT ![c] = "fired"]
            /\ aborted' = [d \in DOMAIN aborted |->
                              aborted[d] \/ d = c \/ pc[d] \in {"fetching", "errbody"}]
       ELSE UNCHANGED <<timer, aborted>>
    /\ UNCHANGED <<pc, req, out, resp, result, cause, raised, served, hist,
                   zodDefaultInsideOptional, pureVars>>

\* HTTP_TIMEOUT_MS pass while the remote has not finished answering; the timer's
\* callback, if the timer is still armed, aborts the controller
DeadlinePasses(c) ==
    /\ pc[c] \in {"fetching", "errbody", "okbody"}
    /\ ~expired[c]
    /\ expired' = [expired EXCEPT ![c] = TRUE]
    /\ IF timer[c] = "armed"
       THEN /\ timer' = [timer EXCEPT ![c] = "fired"]
            /\ aborted' = [aborted EXCEPT ![c] = TRUE]
       ELSE UNCHANGED <<timer, aborted>>
    /\ UNCHANGED <<pc, req, out, resp, result, cause, raised, served, hist,
                   zodDefaultInsideOptional, pureVars>>

\* no case for 204: every 2xx body goes to res.json()
FetchResolvesMutant(c, r) ==
    /\ pc[c] = "fetching"
    /\ ~aborted[c]
    /\ resp' = [resp EXCEPT ![c] = r]
    /\ IF r.status < 200 \/ r.status > 299
       THEN /\ pc' = [pc EXCEPT ![c] = "errbody"]
            /\ UNCHANGED <<timer, result, cause, raised>>
       ELSE /\ ClearTimer(c)
            /\ pc' = [pc EXCEPT ![c] = "okbody"]
            /\ UNCHANGED <<result, cause, raised>>
    /\ UNCHANGED <<req, out, aborted, expired, served, hist,
                   zodDefaultInsideOptional, pureVars>>

\* fetch resolves with the response's status line and headers (lines 76-93)
FetchResolves(c, r) ==
    /\ pc[c] = "fetching"
    /\ ~aborted[c]
    /\ resp' = [resp EXCEPT ![c] = r]
    /\ IF r.status < 200 \/ r.status > 299
       THEN /\ pc' = [pc EXCEPT ![c] = "errbody"]            \* await res.text()
            /\ UNCHANGED <<timer, result, cause, raised>>
       ELSE IF r.status = 204
       THEN /\ ClearTimer(c)                                  \* return { success: true }
            /\ Finish(c, ToolResult(ResultText(ThePlan(c).unwrap,
                                               JObj(<< <<"success", JBool(TRUE)>> >>),
                                               Validated(req[c].tool, req[c].args)),
                                    FALSE), "none", <<>>)
       ELSE /\ ClearTimer(c)                                  \* return res.json()
            /\ pc' = [pc EXCEPT ![c] = "okbody"]
            /\ UNCHANGED <<result, cause, raised>>
    /\ UNCHANGED <<req, out, aborted, expired, served, hist,
                   zodDefaultInsideOptional, pureVars>>

\* fetch, or the read of an error body, rejects with a transport error (line 98)
TransportFails(c, text) ==
    /\ pc[c] \in {"fetching", "errbody"}
    /\ ~aborted[c]
    /\ ClearTimer(c)
    /\ Finish(c, ThrownResult(Redacted(text)), "transport", text)
    /\ UNCHANGED <<req, out, aborted, expired, resp, served, hist,
                   zodDefaultInsideOptional, pureVars>>

\* the aborted fetch or body read rejects with an AbortError (lines 95-97)
AbortRejects(c) ==
    /\ pc[c] \in {"fetching", "errbody"}
    /\ aborted[c]
    /\ ClearTimer(c)
    /\ Finish(c, ThrownResult(TimeoutMessage), "timeout", AbortMessage)
    /\ UNCHANGED <<req, out, aborted, expired, resp, served, hist,
                   zodDefaultInsideOptional, pureVars>>

\* a non-2xx answer retried: the request is sent again
ErrorBodyReadMutant(c) ==
    /\ pc[c] = "errbody"
    /\ ~aborted[c]
    /\ Len(out[c]) < 3
    /\ out' = [out EXCEPT ![c] = Append(@, OutboundRequest(ThePlan(c)))]
    /\ pc' = [pc EXCEPT ![c] = "fetching"]
    /\ UNCHANGED <<req, timer, aborted, expired, resp, result, cause, raised, served, hist,
                   zodDefaultInsideOptional, pureVars>>

\* res.text() of a non-2xx response resolves (lines 87-89, then 98)
ErrorBodyRead(c) ==
    /\ pc[c] = "errbody"
    /\ ~aborted[c]
    /\ ClearTimer(c)
    /\ Finish(c, ThrownResult(Redacted(HttpErrorMessage(resp[c]))), "http",
              HttpErrorMessage(resp[c]))
    /\ UNCHANGED <<req, out, aborted, expired, resp, served, hist,
                   zodDefaultInsideOptional, pureVars>>

\* res.json() settles after quoFetch has returned it: the handler shapes the value or
\* throws on it, or the rejection reaches the dispatch boundary as it is
OkBodyRead(c, quoting) ==
    /\ pc[c] = "okbody"
    /\ IF resp[c].body.json
       THEN LET text == ResultText(ThePlan(c).unwrap, resp[c].body.value,
                                   Validated(req[c].tool, req[c].args))
            IN  IF text.t = "TypeError"
                THEN Finish(c, ThrownResult(text.s), "handler", text.s)
                ELSE Finish(c, ToolResult(text, FALSE), "none", <<>>)
       ELSE Finish(c, ThrownResult(ParseErrorMessage(resp[c].body, quoting)), "parse",
                   ParseErrorMessage(resp[c].body, quoting))
    /\ UNCHANGED <<req, out, timer, aborted, expired, resp, served, hist,
                   zodDefaultInsideOptional, pureVars>>

\* the read of a 2xx body fails in the transport: res.json() rejects
OkBodyFails(c, text) ==
    /\ pc[c] = "okbody"
    /\ Finish(c, ThrownResult(text), "transport", text)
    /\ UNCHANGED <<req, out, timer, aborted, expired, resp, served, hist,
                   zodDefaultInsideOptional, pureVars>>

\* the call is over; nothing of it stays in the server
Retire(c) ==
    /\ pc[c] = "done"
    /\ served' = served + 1
    /\ hist' = [isError |-> result[c][Len(result[c])].isError,
                pageToken |-> Get(req[c].args, "pageToken")]
    /\ pc' = [pc EXCEPT ![c] = "idle"]
    /\ req' = [req EXCEPT ![c] = NoReq]
    /\ out' = [out EXCEPT ![c] = <<>>]
    /\ timer' = [timer EXCEPT ![c] = "none"]
    /\ aborted' = [aborted EXCEPT ![c] = FALSE]
    /\ expired' = [expired EXCEPT ![c] = FALSE]
    /\ resp' = [resp EXCEPT ![c] = NoResp]
    /\ result' = [result EXCEPT ![c] = <<>>]
    /\ cause' = [cause EXCEPT ![c] = "none"]
    /\ raised' = [raised EXCEPT ![c] = <<>>]
    /\ UNCHANGED <<zodDefaultInsideOptional, pureVars>>

Next ==
    \E c \in Slots :
        \/ \E r \in Requests : Receive(c, r)
        \/ RejectInvalid(c)
        \/ RunHandler(c)
        \/ DeadlinePasses(c)
        \/ \E r \in Responses : FetchResolves(c, r)
        \/ \E text \in TransportErrors : TransportFails(c, text)
        \/ AbortRejects(c)
        \/ ErrorBodyRead(c)
        \/ \E quoting \in BOOLEAN : OkBodyRead(c, quoting)
        \/ \E text \in TransportErrors : OkBodyFails(c, text)
        \/ Retire(c)

Spec == Init /\ [][Next]_vars

-----------------------------------------------------------------------------
(* The server with calls in flight together: every await of a handler is a point where *)
(* the event loop may run another call                                                 *)

Calls == {1, 2}

ConcRequests ==
    {Req("list_contacts", [pageToken |-> TokA]),
     Req("delete_contact", [id |-> Str("../a?b")]),
     Req("update_contact", [id |-> Id]),
     Req("get_message", NoArgs)}

ConcResponses ==
    {Response(200, Chars("OK"),
              JsonBody(JObj(<< <<"data", JArr(<<JObj(<< <<"id", JStr(Chars("M1"))>> >>)>>)>>,
                               <<"nextPageToken", JStr(Chars("tokB"))>> >>))),
     Response(200, Chars("OK"), TextBody(Chars("<html>"))),
     Response(204, Chars("No Content"), TextBody(<<>>)),
     Response(404, Chars("Not Found"),
              JsonBody(JObj(<< <<"message", JStr(Chars("Contact not found"))>> >>)))}

InitConc ==
    /\ pc = [c \in Calls |-> "idle"]
    /\ req = [c \in Calls |-> NoReq]
    /\ out = [c \in Calls |-> <<>>]
    /\ timer = [c \in Calls |-> "none"]
    /\ aborted = [c \in Calls |-> FALSE]
    /\ expired = [c \in Calls |-> FALSE]
    /\ resp = [c \in Calls |-> NoResp]
    /\ result = [c \in Calls |-> <<>>]
    /\ cause = [c \in Calls |-> "none"]
    /\ raised = [c \in Calls |-> <<>>]
    /\ served = 0
    /\ hist = NoHist
    /\ zodDefaultInsideOptional \in BOOLEAN
    /\ rin = Pending
    /\ rout = Pending
    /\ qin = <<>>
    /\ qout = NotBuilt

NextConc ==
    \E c \in Calls :
        \/ \E r \in ConcRequests : Receive(c, r)
        \/ RejectInvalid(c)
        \/ RunHandler(c)
        \/ DeadlinePasses(c)
        \/ \E r \in ConcResponses : FetchResolves(c, r)
        \/ \E text \in TransportErrors : TransportFails(c, text)
        \/ AbortRejects(c)
        \/ ErrorBodyRead(c)
        \/ \E quoting \in BOOLEAN : OkBodyRead(c, quoting)
        \/ \E text \in TransportErrors : OkBodyFails(c, text)
        \/ Retire(c)

SpecConc == InitConc /\ [][NextConc]_vars

-----------------------------------------------------------------------------
(* The redactor on its own *)

InitRedact ==
    /\ pc = [c \in Slots |-> "idle"]
    /\ req = [c \in Slots |-> NoReq]
    /\ out = [c \in Slots |-> <<>>]
    /\ timer = [c \in Slots |-> "none"]
    /\ aborted = [c \in Slots |-> FALSE]
    /\ expired = [c \in Slots |-> FALSE]
    /\ resp = [c \in Slots |-> NoResp]
    /\ result = [c \in Slots |-> <<>>]
    /\ cause = [c \in Slots |-> "none"]
    /\ raised = [c \in Slots |-> <<>>]
    /\ served = 0
    /\ hist = NoHist
    /\ zodDefaultInsideOptional = FALSE
    /\ rin \in RedactInputs
    /\ rout = Pending
    /\ qin = <<>>
    /\ qout = NotBuilt

CallRedact ==
    /\ rout = Pending
    /\ rout' = redactSecrets(rin)
    /\ UNCHANGED <<callVars, rin, qin, qout>>

NextRedact == CallRedact

SpecRedact == InitRedact /\ [][NextRedact]_vars

-----------------------------------------------------------------------------
(* The query loop of quoFetch on its own: every params object up to MaxParams entries *)

QueryValues ==
    {Undef, Null, Str("v"), Str(""), Num(20), Bool(FALSE), Arr(<<>>),
     Arr(<<Str("b"), Str("a")>>)}

QueryInputs ==
    UNION {{[i \in 1..n |-> <<"k" \o ToString(i), f[i]>>] : f \in [1..n -> QueryValues]} :
            n \in 0..MaxParams}

InitQuery ==
    /\ pc = [c \in Slots |-> "idle"]
    /\ req = [c \in Slots |-> NoReq]
    /\ out = [c \in Slots |-> <<>>]
    /\ timer = [c \in Slots |-> "none"]
    /\ aborted = [c \in Slots |-> FALSE]
    /\ expired = [c \in Slots |-> FALSE]
    /\ resp = [c \in Slots |-> NoResp]
    /\ result = [c \in Slots |-> <<>>]
    /\ cause = [c \in Slots |-> "none"]
    /\ raised = [c \in Slots |-> <<>>]
    /\ served = 0
    /\ hist = NoHist
    /\ zodDefaultInsideOptional = FALSE
    /\ rin = Pending
    /\ rout = Pending
    /\ qin \in QueryInputs
    /\ qout = NotBuilt

CallBuildQuery ==
    /\ qout = NotBuilt
    /\ qout' = BuildQuery(<<>>, qin)
    /\ UNCHANGED <<callVars, rin, rout, qin>>

NextQuery == CallBuildQuery

SpecQuery == InitQuery /\ [][NextQuery]_vars

-----------------------------------------------------------------------------
(* The claims *)

Last(c) == result[c][Len(result[c])]

Awaiting == {"fetching", "errbody", "okbody"}

GatewayFailures == {"timeout", "http", "transport", "parse"}

\* the values a search-parameter list holds under the name k, in order
EntryValues(q, k) ==
    LET e == SelectSeq(q, LAMBDA x : x[1] = Chars(k))
    IN  [i \in 1..Len(e) |-> e[i][2]]

PagedListTools == {"list_messages", "list_conversations", "list_contacts", "list_calls"}

AllListTools == PagedListTools \cup {"list_phone_numbers", "list_users", "list_webhooks"}

\* C1: the string redactSecrets returns holds no occurrence of the configured API key,
\* however many occurrences its input holds.
C1_KeyNeverInOutput == rout.t = "string" => ~Contains(rout.s, API_KEY)

\* C2: on every gateway failure path (non-2xx, transport failure, body parse failure) the
\* text of the result is what the Redactor returns for the error that was raised.
C2_FailureTextIsRedacted ==
    \A c \in Slots :
        pc[c] = "done" /\ cause[c] \in {"http", "transport", "parse"}
            => Last(c).text = redactSecrets(RVal("string", raised[c]))

\* C3: an update_contact call whose handler runs with none of the six fields supplied
\* returns the "No fields provided for update_contact" error and sends no request; with
\* some field supplied it sends exactly one PATCH whose defaultFields are the supplied fields.
SuppliedFields(c) == DOMAIN req[c].args \cap ContactFields

NoFieldsText == Chars("No fields provided for update_contact")

C3_UpdateContactFields ==
    \A c \in Slots :
        req[c].tool = "update_contact" /\ pc[c] \notin {"idle", "validating"}
        /\ cause[c] # "validation"
            => IF SuppliedFields(c) = {}
               THEN /\ pc[c] = "done"
                    /\ out[c] = <<>>
                    /\ Len(result[c]) = 1
                    /\ Last(c).isError
                    /\ Contains(Last(c).text.s, NoFieldsText)
               ELSE /\ Len(out[c]) = 1
                    /\ out[c][1].method = "PATCH"
                    /\ out[c][1].body.has
                    /\ out[c][1].body.v.defaultFields
                         = [k \in SuppliedFields(c) |-> req[c].args[k]]

C3_Witness ==
    \E c \in Slots :
        /\ req[c].tool = "update_contact"
        /\ "id" \in DOMAIN req[c].args
        /\ SuppliedFields(c) = {}
        /\ pc[c] = "done"
        /\ Last(c).isError

\* C4: a call whose request is still incomplete when HTTP_TIMEOUT_MS have passed is
\* aborted, in whatever phase the remote stalls, and ends with the timeout error.
C4_TimeoutInEveryPhase ==
    \A c \in Slots :
        /\ expired[c] /\ pc[c] \in Awaiting => aborted[c]
        /\ expired[c] /\ pc[c] = "done"
            => Last(c).isError /\ Last(c).text.s = TimeoutMessage

\* C5 as stated: the result of a finished call has isError set exactly when the call
\* failed validation, was an update_contact without fields, or failed in the gateway.
\* A 2xx body that is the JSON null makes a handler that reads result.data throw after
\* quoFetch has succeeded: an error result with none of the three causes.
C5_ErrorOnlyOnListedFailures ==
    \A c \in Slots :
        pc[c] = "done"
            => (Last(c).isError
                  <=> cause[c] \in {"validation", "nofields"} \cup GatewayFailures)

\* C5: a call returns at most one result, a finished call exactly one; the result has
\* isError set exactly when the call failed validation, was an update_contact without
\* fields, failed in the gateway, or its handler threw on a 2xx body that is the JSON
\* null; and a call after a failed one is served.
C5_OneStructuredResult ==
    \A c \in Slots :
        /\ Len(result[c]) <= 1
        /\ pc[c] = "done" <=> Len(result[c]) = 1
        /\ pc[c] = "done" =>
            /\ Last(c).isError
                  <=> cause[c] \in {"validation", "nofields", "handler"} \cup GatewayFailures
            /\ cause[c] = "handler"
                  => /\ resp[c].body.value = JNull
                     /\ ThePlan(c).unwrap = "data"
                     /\ Last(c).text = RVal("string", NullDataMessage)
            /\ Last(c).isError \in BOOLEAN
            /\ Last(c).text.t \in {"string", "undefined"}

C5_Witness ==
    \E c \in Slots :
        /\ served >= 1
        /\ hist.isError
        /\ pc[c] = "done"
        /\ ~Last(c).isError
        /\ Len(out[c]) = 1

\* C6: a call whose parameters violate the declared schema (content of length 0 or above
\* 1600, maxResults outside 1..100, or 1..50 for contacts, setInboxStatus other than
\* "done", a required parameter missing) never runs the handler, sends no request and
\* ends in an error result.
RequiredParams(tool) ==
    CASE tool = "send_text" -> {"from", "to", "content"}
      [] tool \in {"list_messages", "list_calls"} -> {"phoneNumberId", "participants"}
      [] tool = "create_contact" -> {"firstName"}
      [] tool \in {"get_message", "get_contact", "delete_contact", "update_contact"} -> {"id"}
      [] tool \in {"get_call", "get_call_recordings", "get_call_summary",
                   "get_call_transcription", "get_voicemail"} -> {"callId"}
      [] tool = "get_phone_number" -> {"phoneNumberId"}
      [] tool = "get_user" -> {"userId"}
      [] OTHER -> {}

ViolatesSchema(r) ==
    \/ RequiredParams(r.tool) \ DOMAIN r.args # {}
    \/ /\ r.tool = "send_text"
       /\ "content" \in DOMAIN r.args
       /\ r.args.content.len < 1 \/ r.args.content.len > 1600
    \/ /\ r.tool = "send_text"
       /\ "setInboxStatus" \in DOMAIN r.args
       /\ r.args.setInboxStatus.s # "done"
    \/ /\ r.tool \in PagedListTools
       /\ "maxResults" \in DOMAIN r.args
       /\ \/ r.args.maxResults.n < 1
          \/ r.args.maxResults.n > (IF r.tool = "list_contacts" THEN 50 ELSE 100)

C6_InvalidNeverReachesRemote ==
    \A c \in Slots :
        pc[c] # "idle" /\ ViolatesSchema(req[c])
            => /\ pc[c] \in {"validating", "done"}
               /\ out[c] = <<>>
               /\ cause[c] \in {"none", "validation"}
               /\ pc[c] = "done" => Last(c).isError /\ cause[c] = "validation"

C6_Witness ==
    \E c \in Slots :
        /\ req[c].tool = "send_text"
        /\ "content" \in DOMAIN req[c].args
        /\ req[c].args.content.len = 1601
        /\ pc[c] = "done"
        /\ Last(c).isError
        /\ out[c] = <<>>

\* C7: a call sends at most one request and returns at most one result; after a gateway
\* failure it has sent exactly one request and reported the failure once.
C7_NoRetry ==
    \A c \in Slots :
        /\ Len(out[c]) <= 1
        /\ Len(result[c]) <= 1
        /\ cause[c] \in GatewayFailures
            => pc[c] = "done" /\ Len(out[c]) = 1 /\ Len(result[c]) = 1 /\ Last(c).isError

C7_Witness ==
    \E c \in Slots :
        /\ cause[c] = "http"
        /\ resp[c].status = 404
        /\ Len(out[c]) = 1
        /\ Len(result[c]) = 1

\* C8: in the search parameters quoFetch builds, an array value gives one entry per
\* element under its key, in the array's order; any other value but null and undefined
\* gives exactly one entry; null and undefined give none; and there is no other entry.
ExpectedEntries(v) ==
    IF v.t \in {"undef", "null"} THEN <<>>
    ELSE IF v.t = "arr" THEN [i \in 1..Len(v.a) |-> Chars(v.a[i].s)]
    ELSE IF v.t = "str" THEN <<Chars(v.s)>>
    ELSE IF v.t = "num" THEN <<Digits(v.n)>>
    ELSE <<IF v.b THEN Chars("true") ELSE Chars("false")>>

C8_QueryEntries ==
    qout # NotBuilt =>
        /\ \A i \in 1..Len(qin) : EntryValues(qout, qin[i][1]) = ExpectedEntries(qin[i][2])
        /\ \A j \in 1..Len(qout) : \E i \in 1..Len(qin) : qout[j][1] = Chars(qin[i][1])

C8_Witness ==
    /\ qout # NotBuilt
    /\ Len(qin) = 3
    /\ qin[1][2] = Arr(<<Str("b"), Str("a")>>)
    /\ qin[2][2] = Null
    /\ qin[3][2] = Num(20)
    /\ qout = <<<<Chars("k1"), Chars("b")>>, <<Chars("k1"), Chars("a")>>,
                 <<Chars("k3"), Chars("20")>>>>

\* C9: the pageToken entry of the request a paginated list tool sends is the pageToken
\* parameter of that call, unchanged, and there is none when the call gives none,
\* whatever the call before it was given.
C9_PageTokenPassthrough ==
    \A c \in Slots :
        req[c].tool \in PagedListTools /\ Len(out[c]) >= 1
            => EntryValues(out[c][1].query, "pageToken")
                 = (IF "pageToken" \in DOMAIN req[c].args
                    THEN <<Chars(req[c].args.pageToken.s)>> ELSE <<>>)

C9_Witness ==
    \E c \in Slots :
        /\ hist.pageToken = TokA
        /\ req[c].tool = "list_contacts"
        /\ "pageToken" \notin DOMAIN req[c].args
        /\ Len(out[c]) = 1
        /\ EntryValues(out[c][1].query, "pageToken") = <<>>

\* C10 as stated: every list tool, list_phone_numbers, list_users and list_webhooks
\* included, returns the envelope of a 200 answer verbatim, and every get and mutation
\* tool that answers with a record returns the envelope's data field.
C10_EveryListToolReturnsEnvelope ==
    \A c \in Slots :
        pc[c] = "done" /\ cause[c] = "none" /\ resp[c].status = 200
            => IF req[c].tool \in AllListTools
               THEN Last(c).text = RVal("string", Stringify(resp[c].body.value, 2, 0))
               ELSE req[c].tool # "delete_contact" /\ HasField(resp[c].body.value, "data")
                    => Last(c).text
                         = RVal("string", Stringify(Field(resp[c].body.value, "data"), 2, 0))

\* C10 amended: the four paginated list tools return the envelope of a 200 answer
\* verbatim, its next-page token included; delete_contact returns "Contact <id> deleted.";
\* every other tool, list_phone_numbers, list_users and list_webhooks included, returns
\* the envelope's data field.
C10_PagedListToolsReturnEnvelope ==
    \A c \in Slots :
        pc[c] = "done" /\ cause[c] = "none" /\ resp[c].status = 200
            => IF req[c].tool \in PagedListTools
               THEN /\ Last(c).text = RVal("string", Stringify(resp[c].body.value, 2, 0))
                    /\ HasField(resp[c].body.value, "nextPageToken")
                        => Contains(Last(c).text.s,
                                    Chars("\"nextPageToken\": ")
                                    \o Stringify(Field(resp[c].body.value, "nextPageToken"), 2, 2))
               ELSE IF req[c].tool = "delete_contact"
               THEN Last(c).text
                      = RVal("string", Chars("Contact ") \o Chars(req[c].args.id.s)
                                       \o Chars(" deleted."))
               ELSE HasField(resp[c].body.value, "data")
                    => Last(c).text
                         = RVal("string", Stringify(Field(resp[c].body.value, "data"), 2, 0))

C10_Witness ==
    \E c \in Slots :
        /\ pc[c] = "done"
        /\ cause[c] = "none"
        /\ resp[c].status = 200
        /\ req[c].tool = "list_users"
        /\ HasField(resp[c].body.value, "nextPageToken")
        /\ Last(c).text = RVal("string", Stringify(Field(resp[c].body.value, "data"), 2, 0))
        /\ Last(c).text # RVal("string", Stringify(resp[c].body.value, 2, 0))

\* C11 as stated: the call answered with a non-2xx status fails with the message
\* "Quo API <status> <statusText>: <detail>", redacted, where detail is the top-level
\* message if it is a string, else error.message if it is a string, else error if it is a
\* string, else the raw body, else "No response body" when the body is empty.
StringFieldDetail(body) ==
    LET message == Field(body.value, "message")
        error == Field(body.value, "error")
        errorMessage == Field(error, "message")
    IN  IF body.raw = <<>> THEN Chars("No response body")
        ELSE IF body.json /\ IsString(message) THEN message.s
        ELSE IF body.json /\ IsString(errorMessage) THEN errorMessage.s
        ELSE IF body.json /\ IsString(error) THEN error.s
        ELSE body.raw

\* the same with a string field counting only when it is not blank
NonBlankFieldDetail(body) ==
    LET message == Field(body.value, "message")
        error == Field(body.value, "error")
        errorMessage == Field(error, "message")
    IN  IF body.raw = <<>> THEN Chars("No response body")
        ELSE IF body.json /\ IsString(message) /\ NonBlank(message.s) THEN message.s
        ELSE IF body.json /\ IsString(errorMessage) /\ NonBlank(errorMessage.s)
        THEN errorMessage.s
        ELSE IF body.json /\ IsString(error) /\ NonBlank(error.s) THEN error.s
        ELSE body.raw

QuoApiMessage(r, detail) ==
    Chars("Quo API ") \o Digits(r.status) \o Chars(" ") \o r.statusText
    \o Chars(": ") \o detail

NonOk(r) == r.status # 0 /\ (r.status < 200 \/ r.status > 299)

ContactNotFound == Chars("Contact not found")

C11_DetailFromAnyStringField ==
    \A c \in Slots :
        pc[c] = "done" /\ NonOk(resp[c]) /\ cause[c] = "http"
            => /\ Last(c).isError
               /\ Last(c).text.s
                    = Redacted(QuoApiMessage(resp[c], Redacted(StringFieldDetail(resp[c].body))))

\* C11 amended: a call answered with a non-2xx status ends in an error result; once the
\* body is read its text is "Quo API <status> <statusText>: <detail>", redacted, where
\* detail is the first of message, error.message and error that is a string with a
\* character other than white space, else the raw body, else "No response body" when the
\* body is empty; a 404 with body {"message":"Contact not found"} gives a text that
\* contains "404" and "Contact not found".
C11_DetailFromNonBlankStringField ==
    \A c \in Slots :
        pc[c] = "done" /\ NonOk(resp[c])
            => /\ Last(c).isError
               /\ cause[c] \in {"http", "transport", "timeout"}
               /\ cause[c] = "http" =>
                    /\ Last(c).text.s
                         = Redacted(QuoApiMessage(resp[c],
                                                  Redacted(NonBlankFieldDetail(resp[c].body))))
                    /\ Redacted(NonBlankFieldDetail(resp[c].body))
                         = NonBlankFieldDetail(resp[c].body)
                        => Last(c).text.s
                             = QuoApiMessage(resp[c], NonBlankFieldDetail(resp[c].body))
                    /\ resp[c].status = 404
                       /\ resp[c].body = JsonBody(JObj(<< <<"message", JStr(ContactNotFound)>> >>))
                        => /\ Contains(Last(c).text.s, Chars("404"))
                           /\ Contains(Last(c).text.s, ContactNotFound)

C11_Witness ==
    \E c \in Slots :
        /\ pc[c] = "done"
        /\ cause[c] = "http"
        /\ req[c].tool = "get_contact"
        /\ resp[c].status = 404
        /\ IsString(Field(resp[c].body.value, "message"))
        /\ ~NonBlank(Field(resp[c].body.value, "message").s)
        /\ Last(c).isError
        /\ Contains(Last(c).text.s, Chars("404"))
        /\ Contains(Last(c).text.s, Chars("bad key "))

\* C12: a call answered with HTTP 204 ends at once, with no read or parse of the body: its
\* result is a success (isError not set) shaped from the marker {success: true}, for
\* delete_contact the text "Contact <id> deleted."; and delete_contact returns that text
\* only after its one DELETE request was answered with a 2xx status.
SuccessMarker == JObj(<< <<"success", JBool(TRUE)>> >>)

DeletedText(c) ==
    RVal("string", Chars("Contact ") \o Chars(req[c].args.id.s) \o Chars(" deleted."))

C12_NoContentIsSuccess ==
    \A c \in Slots :
        /\ resp[c].status = 204
            => /\ pc[c] = "done"
               /\ cause[c] = "none"
               /\ raised[c] = <<>>
               /\ Len(result[c]) = 1
               /\ ~Last(c).isError
               /\ Last(c).text
                    = ResultText(ThePlan(c).unwrap, SuccessMarker,
                                 Validated(req[c].tool, req[c].args))
               /\ req[c].tool = "delete_contact" => Last(c).text = DeletedText(c)
               /\ req[c].tool \in PagedListTools
                    => Last(c).text = RVal("string", Stringify(SuccessMarker, 2, 0))
        /\ req[c].tool = "delete_contact" /\ pc[c] = "done" /\ cause[c] # "validation"
           /\ Last(c).text = DeletedText(c)
            => /\ ~Last(c).isError
               /\ resp[c].status \in 200..299
               /\ Len(out[c]) = 1
               /\ out[c][1].method = "DELETE"
               /\ out[c][1].path
                    = ParseUrl(BASE_URL \o Chars("/contacts/")
                               \o Chars(req[c].args.id.s)).pathname
        /\ req[c].tool = "delete_contact" /\ pc[c] = "done"
           /\ (cause[c] # "none" \/ resp[c].status \notin 200..299)
            => Last(c).isError /\ ~Contains(Last(c).text.s, Chars("deleted."))

C12_Witness ==
    \E c \in Slots :
        /\ req[c].tool = "delete_contact"
        /\ resp[c].status = 204
        /\ resp[c].body.raw = <<>>
        /\ pc[c] = "done"
        /\ ~Last(c).isError
        /\ Last(c).text = RVal("string", Chars("Contact id1 deleted."))

\* C13: a call of list_messages, list_conversations, list_calls or list_contacts that
\* gives no maxResults reaches its handler with maxResults = 20, and the request it sends
\* carries the one entry maxResults=20.
C13_OmittedPageSizeIsTwenty ==
    \A c \in Slots :
        req[c].tool \in PagedListTools /\ "maxResults" \notin DOMAIN req[c].args
        /\ Len(out[c]) >= 1
            => /\ Get(Validated(req[c].tool, req[c].args), "maxResults") = Num(20)
               /\ EntryValues(out[c][1].query, "maxResults") = <<Chars("20")>>

\* C14: with calls in flight together, in every interleaving, each call is aborted only
\* by its own deadline (its controller is aborted exactly when its own timer fired); its
\* timer is armed from its fetch until its quoFetch settles and is cleared from then on;
\* the request it sent is the one built from its own parameters; and its result is one
\* that its own parameters, its own response and the configuration give, whatever the
\* other call and the calls before it were.
OwnOutcomes(c) ==
    LET a == Validated(req[c].tool, req[c].args)
    IN  CASE cause[c] = "validation" -> {ValidationResult(req[c].tool, req[c].args)}
          [] cause[c] = "nofields" -> {jsonToolResponse(NoFieldsPayload, TRUE)}
          [] cause[c] = "timeout" -> {ThrownResult(TimeoutMessage)}
          [] cause[c] = "http" -> {ThrownResult(Redacted(HttpErrorMessage(resp[c])))}
          [] cause[c] = "transport" ->
                {ThrownResult(text) : text \in TransportErrors}
          [] cause[c] = "parse" ->
                {ThrownResult(ParseErrorMessage(resp[c].body, q)) : q \in BOOLEAN}
          [] cause[c] = "handler" -> {ThrownResult(NullDataMessage)}
          [] OTHER ->
                {ToolResult(ResultText(ThePlan(c).unwrap,
                                       IF resp[c].status = 204 THEN SuccessMarker
                                       ELSE resp[c].body.value, a), FALSE)}

C14_CallsAreIsolated ==
    \A c \in Calls :
        /\ aborted[c] => expired[c]
        /\ pc[c] \in {"fetching", "errbody"}
            => /\ timer[c] \in {"armed", "fired"}
               /\ aborted[c] <=> timer[c] = "fired"
        /\ pc[c] \in {"okbody", "done"} /\ Len(out[c]) = 1 => timer[c] = "cleared"
        /\ pc[c] \in {"idle", "validating"} => timer[c] = "none" /\ ~aborted[c]
        /\ Len(out[c]) <= 1
        /\ Len(out[c]) = 1 => out[c][1] = OutboundRequest(ThePlan(c))
        /\ pc[c] = "done" => Len(result[c]) = 1 /\ Last(c) \in OwnOutcomes(c)
        /\ cause[c] = "timeout" => expired[c] /\ aborted[c]

C14_Witness ==
    \E c \in Calls : \E d \in Calls \ {c} :
        /\ served >= 1
        /\ pc[c] = "fetching" /\ timer[c] = "fired" /\ aborted[c]
        /\ pc[d] = "errbody" /\ timer[d] = "armed" /\ ~aborted[d]
        /\ req[c].tool = "delete_contact"
        /\ req[d].tool = "list_contacts"
        /\ out[d][1] # out[c][1]

====
